---- MODULE Spec2Model ----
(***************************************************************************)
(* Model of cothread/pv.py: the PV wrapper (a cache of the latest value of *)
(* one monitored process variable, with an Event to wait for updates) and  *)
(* the PV_array wrapper (per-slot caches over a list of monitored PVs).    *)
(*                                                                         *)
(* The collaborators cothread.Event, the cothread timer and the catools    *)
(* monitor/caget are not part of pv.py; they are modelled from their       *)
(* documented contract (Event_*, Monitor_close, TimeoutFire, Tick).        *)
(***************************************************************************)
EXTENDS Integers, Sequences, FiniteSets, TLC

\* ---------------------------------------------------------------- bounds
MaxValue   == 1      \* payloads are 0..MaxValue
MaxTime    == 1      \* the clock runs 0..MaxTime
NTasks     == 2      \* cothreads calling into the PV
NSlots     == 2      \* PVs in the PV_array
MaxStamp   == 1      \* timestamps are 1..MaxStamp
MaxAlarm   == 1      \* severity and status are 0..MaxAlarm

None    == -1                \* self.__value before the first update
Forever == MaxTime + 1       \* deadline of a wait with timeout=None

Values  == 0 .. MaxValue
Tasks   == 1 .. NTasks
Slots   == 0 .. (NSlots - 1)
Stamps  == 1 .. MaxStamp
Alarms  == 0 .. MaxAlarm

VARIABLES
    cache,      \* which wrapper this program constructed: "PV" or "PV_array"
    now,        \* the scheduler's clock
    alive,      \* the wrapper object has not been collected
    held,       \* the user still holds a reference to the wrapper
    \* ---- PV
    value,      \* PV.__value
    event,      \* PV.__event: [flag, value]
    monitor,    \* PV.__monitor: [state, released]
    deadline,   \* PV.__deadline
    tasks,      \* per cothread: where it is in its call on the PV
    \* ---- PV_array
    avalue,     \* PV_array.__value
    seen,       \* PV_array.seen
    ok,         \* PV_array.__ok
    timestamp,  \* PV_array.__timestamp
    severity,   \* PV_array.__severity
    status,     \* PV_array.__status
    monitors,   \* PV_array.__monitors
    syncing,    \* a sync() whose caget is in flight: [active, throw], and
                \* the slots updated by the monitor during that caget
    \* ---- history
    lastDelivered, \* the value most recently delivered to PV._on_update
    lastReport, \* per slot: the most recent report applied to the slot
    lastValid,  \* per slot: the most recent valid report applied to the slot
    op          \* the step that produced this state and what it returned

pvVars  == <<value, event, monitor, deadline, tasks, lastDelivered>>
arrVars == <<avalue, seen, ok, timestamp, severity, status, monitors, syncing,
             lastReport, lastValid>>
vars    == <<cache, now, alive, held, op, pvVars, arrVars>>

\* ------------------------------------------------- results of a call
NoResult      == [kind |-> "none",    val |-> None]
TimeoutResult == [kind |-> "Timeout", val |-> None]
Returned(v)   == [kind |-> "value",   val |-> v]

\* op: name of the step, the task or slot it is about, the result the call
\* returned in this step, the tasks woken by it or timed out (with the call
\* each was suspended in), for a call that went through
\* get_next whether it was paired with a reset of the same task and whether
\* an update had been delivered since that reset, for a sync the seen slots
\* for which the synchronous read differed from the cached slot, for a
\* close() whether the wrapper had been closed before, for an update of the
\* PV whether the step before it was a Timeout, for a sync the slots whose
\* read failed, and for an update whether self.on_update was set and the
\* calls it received: the index passed and the value a get() made from
\* inside the listener read (for the PV_array: read at that index), and for
\* a call that was suspended the deadline it asked Wait for
Op(name, arg, ret) ==
    [name |-> name, arg |-> arg, ret |-> ret, woken |-> {}, slots |-> {},
     paired |-> FALSE, fresh |-> FALSE, again |-> FALSE, late |-> FALSE,
     failed |-> {}, listening |-> FALSE, heard |-> <<>>, until |-> 0]

\* ------------------------------------------------- cothread.Event
Event_init == [flag |-> FALSE, value |-> None]

Event_Signal(ev, v) == [flag |-> TRUE, value |-> v]

Event_Reset(ev) == [ev EXCEPT !.flag = FALSE]

\* a task that is not inside a call
Idle == [pc |-> "idle", call |-> "none", deadline |-> 0,
         reset |-> FALSE, fresh |-> FALSE]

\* Wait(timeout) by a task making `call`: the signalled value at once, else
\* the task is suspended until the deadline
Event_Wait(ev, task, call, dl) ==
    IF ev.flag
    THEN [task |-> Idle, ret |-> Returned(ev.value)]
    ELSE [task |-> [task EXCEPT !.pc = "waiting", !.call = call,
                                !.deadline = dl],
          ret  |-> NoResult]

\* AbsTimeout(timeout): timeout=None never expires
AbsTimeout(timeout) == IF timeout = Forever THEN Forever ELSE now + timeout

\* ------------------------------------------------- catools monitor
Monitor_init == [state |-> "open", released |-> 0]

Monitor_close(m) ==
    IF m.state = "open"
    THEN [state |-> "closed", released |-> m.released + 1]
    ELSE m

\* ------------------------------------------------- initial state
\* a report without data (catools' ca_nothing): ok is false and there is no
\* payload, timestamp, severity or status
Nothing == [ok |-> FALSE, value |-> None, timestamp |-> None,
            severity |-> None, status |-> None]

\* the reports a monitor or a caget can deliver for one PV
Reports ==
    [ok : {TRUE}, value : Values, timestamp : Stamps,
     severity : Alarms, status : Alarms] \cup {Nothing}

PV_init ==
    /\ value = None
    /\ event = Event_init
    /\ monitor = Monitor_init
    /\ deadline \in IF cache = "PV" THEN {0, MaxTime} ELSE {0}
    /\ tasks = [t \in Tasks |-> Idle]
    /\ lastDelivered = None

\* PV_array.__init__ with the ok flags created by numpy.ones
PV_array_init_ones ==
    /\ avalue    = [i \in Slots |-> 0]
    /\ seen      = [i \in Slots |-> FALSE]
    /\ ok        = [i \in Slots |-> TRUE]
    /\ timestamp = [i \in Slots |-> 0]
    /\ severity  = [i \in Slots |-> 0]
    /\ status    = [i \in Slots |-> 0]
    /\ monitors  = [i \in Slots |-> Monitor_init]
    /\ syncing   = [active |-> FALSE, throw |-> FALSE, during |-> {}]
    /\ lastReport = [i \in Slots |-> Nothing]
    /\ lastValid  = [i \in Slots |-> Nothing]

PV_array_init ==
    /\ avalue    = [i \in Slots |-> 0]
    /\ seen      = [i \in Slots |-> FALSE]
    /\ ok        = [i \in Slots |-> FALSE]
    /\ timestamp = [i \in Slots |-> 0]
    /\ severity  = [i \in Slots |-> 0]
    /\ status    = [i \in Slots |-> 0]
    /\ monitors  = [i \in Slots |-> Monitor_init]
    /\ syncing   = [active |-> FALSE, throw |-> FALSE, during |-> {}]
    /\ lastReport = [i \in Slots |-> Nothing]
    /\ lastValid  = [i \in Slots |-> Nothing]

Init ==
    /\ cache \in {"PV", "PV_array"}
    /\ now = 0
    /\ alive = TRUE
    /\ held = TRUE
    /\ op = Op("init", 0, NoResult)
    /\ PV_init
    /\ PV_array_init

\* ------------------------------------------------- PV operations
\* _WeakMethod: the strong references that keep the wrapper alive. The user's
\* reference counts; the callback handed to camonitor holds its target
\* through weakref.proxy and counts for nothing, subscribed or not.
StrongRefs_bound(user, subscribed) ==
    (IF user THEN 1 ELSE 0) + (IF subscribed THEN 1 ELSE 0)

StrongRefs(user, subscribed) == IF user THEN 1 ELSE 0

Usable(t) == cache = "PV" /\ alive /\ held /\ tasks[t].pc = "idle"

Waiting == {t \in Tasks : tasks[t].pc = "waiting"}

PV_close == monitor' = Monitor_close(monitor)

\* what a get() returns when made where it cannot be suspended (in a
\* callback): the cached value, else the signalled one
get_inside(val, ev) ==
    IF val # None THEN val ELSE IF ev.flag THEN ev.value ELSE None

\* the calls of self.on_update made by one _on_update: none if it is unset
Heard(listening, index, saw) ==
    IF listening THEN <<[arg |-> index, saw |-> saw]>> ELSE <<>>

\* PV._on_update without the Signal: the value is stored, nobody is told
PV_on_update_nosignal(v, listening) ==
    /\ cache = "PV" /\ alive
    /\ monitor.state = "open"
    /\ value' = v
    /\ lastDelivered' = v
    /\ op' = [Op("on_update", 0, Returned(v)) EXCEPT
                !.late = (op.name = "timeout"),
                !.listening = listening,
                !.heard = Heard(listening, 0, get_inside(value', event'))]
    /\ UNCHANGED <<cache, now, alive, held, event, tasks, monitor,
                   deadline, arrVars>>

\* PV._on_update that signals an event which wakes one waiter only
PV_on_update_wake_one(v, listening) ==
    /\ cache = "PV" /\ alive
    /\ monitor.state = "open"
    /\ value' = v
    /\ event' = Event_Signal(event, v)
    /\ LET first == {t \in Waiting : \A u \in Waiting : t <= u}
       IN  /\ tasks' = [t \in Tasks |->
                          IF t \in first THEN Idle
                          ELSE [tasks[t] EXCEPT !.fresh = tasks[t].reset]]
           /\ op' = [Op("on_update", 0, Returned(v)) EXCEPT
                       !.woken = {<<t, tasks[t].call>> : t \in first},
                       !.late = (op.name = "timeout"),
                       !.listening = listening,
                       !.heard = Heard(listening, 0,
                                       get_inside(value', event'))]
    /\ lastDelivered' = v
    /\ UNCHANGED <<cache, now, alive, held, monitor, deadline, arrVars>>

\* PV._on_update that calls the listener first and stores the value after
PV_on_update_listener_first(v, listening) ==
    /\ cache = "PV" /\ alive
    /\ monitor.state = "open"
    /\ value' = v
    /\ event' = Event_Signal(event, v)
    /\ tasks' = [t \in Tasks |->
                   IF t \in Waiting THEN Idle
                   ELSE [tasks[t] EXCEPT !.fresh = tasks[t].reset]]
    /\ lastDelivered' = v
    /\ op' = [Op("on_update", 0, Returned(v)) EXCEPT
                !.woken = {<<t, tasks[t].call>> : t \in Waiting},
                !.late = (op.name = "timeout"),
                !.listening = listening,
                !.heard = Heard(listening, 0, get_inside(value, event))]
    /\ UNCHANGED <<cache, now, alive, held, monitor, deadline, arrVars>>

\* PV._on_update: store the value, signal the event (every task suspended in
\* Wait is woken and handed the value), then call self.on_update if it is
\* set (listening: the user may assign the attribute at any time)
PV_on_update(v, listening) ==
    /\ cache = "PV" /\ alive
    /\ monitor.state = "open"
    /\ value' = v
    /\ event' = Event_Signal(event, v)
    /\ tasks' = [t \in Tasks |->
                   IF t \in Waiting THEN Idle
                   ELSE [tasks[t] EXCEPT !.fresh = tasks[t].reset]]
    /\ lastDelivered' = v
    /\ op' = [Op("on_update", 0, Returned(v)) EXCEPT
                !.woken = {<<t, tasks[t].call>> : t \in Waiting},
                !.late = (op.name = "timeout"),
                !.listening = listening,
                !.heard = Heard(listening, 0, get_inside(value', event'))]
    /\ UNCHANGED <<cache, now, alive, held, monitor, deadline, arrVars>>

\* PV.reset that leaves the event as it is
PV_reset_noop(ev) == ev

\* PV.reset, as a function of the event
PV_reset(ev) == Event_Reset(ev)

\* PV.get_next called by task t on behalf of `call` ("get" or "get_next")
get_next(t, dl, reset, call) ==
    LET ev  == IF reset THEN PV_reset(event) ELSE event
        me  == [tasks[t] EXCEPT !.reset = reset \/ @,
                                !.fresh = IF reset THEN FALSE ELSE @]
        res == Event_Wait(ev, me, call, dl)
    IN  /\ event' = ev
        /\ tasks' = [tasks EXCEPT ![t] = res.task]
        /\ op' = [Op(call, t, res.ret) EXCEPT
                    !.paired = me.reset,
                    !.fresh = me.fresh,
                    !.until = IF res.task.pc = "waiting" THEN dl ELSE 0]

\* PV.get_next that calls Wait() without passing its timeout on
PV_get_next_unbounded(t, timeout, reset) ==
    /\ Usable(t)
    /\ timeout = Forever \/ AbsTimeout(timeout) <= MaxTime
    /\ LET ev  == IF reset THEN PV_reset(event) ELSE event
           me  == [tasks[t] EXCEPT !.reset = reset \/ @,
                                   !.fresh = IF reset THEN FALSE ELSE @]
           res == Event_Wait(ev, me, "get_next", Forever)
       IN  /\ event' = ev
           /\ tasks' = [tasks EXCEPT ![t] = res.task]
           /\ op' = [Op("get_next", t, res.ret) EXCEPT
                       !.paired = me.reset,
                       !.fresh = me.fresh,
                       !.until = IF res.task.pc = "waiting"
                                 THEN AbsTimeout(timeout) ELSE 0]
    /\ UNCHANGED <<cache, now, alive, held, value, monitor, deadline,
                   lastDelivered, arrVars>>

PV_get_next(t, timeout, reset) ==
    /\ Usable(t)
    /\ timeout = Forever \/ AbsTimeout(timeout) <= MaxTime
    /\ get_next(t, AbsTimeout(timeout), reset, "get_next")
    /\ UNCHANGED <<cache, now, alive, held, value, monitor, deadline,
                   lastDelivered, arrVars>>

\* PV.get testing `not self.__value`: a cached 0 counts as no value
PV_get_falsy(t) ==
    /\ Usable(t)
    /\ IF value = None \/ value = 0
       THEN get_next(t, deadline, FALSE, "get")
       ELSE /\ op' = Op("get", t, Returned(value))
            /\ UNCHANGED <<event, tasks>>
    /\ UNCHANGED <<cache, now, alive, held, value, monitor, deadline,
                   lastDelivered, arrVars>>

\* PV.get that never waits: it returns self.__value even while it is None
PV_get_noblock(t) ==
    /\ Usable(t)
    /\ op' = Op("get", t, Returned(value))
    /\ UNCHANGED <<cache, now, alive, held, pvVars, arrVars>>

\* PV.get that takes self.__deadline for a duration and starts it anew
PV_get_relative(t) ==
    /\ Usable(t)
    /\ IF value = None
       THEN get_next(t, AbsTimeout(deadline), FALSE, "get")
       ELSE /\ op' = Op("get", t, Returned(value))
            /\ UNCHANGED <<event, tasks>>
    /\ UNCHANGED <<cache, now, alive, held, value, monitor, deadline,
                   lastDelivered, arrVars>>

\* PV.get that takes the signal away when it returns the cached value
PV_get_consume(t) ==
    /\ Usable(t)
    /\ IF value = None
       THEN get_next(t, deadline, FALSE, "get")
       ELSE /\ op' = Op("get", t, Returned(value))
            /\ event' = Event_Reset(event)
            /\ UNCHANGED tasks
    /\ UNCHANGED <<cache, now, alive, held, value, monitor, deadline,
                   lastDelivered, arrVars>>

\* PV.get: the cached value, or get_next(self.__deadline) while there is none
PV_get(t) ==
    /\ Usable(t)
    /\ IF value = None
       THEN get_next(t, deadline, FALSE, "get")
       ELSE /\ op' = Op("get", t, Returned(value))
            /\ UNCHANGED <<event, tasks>>
    /\ UNCHANGED <<cache, now, alive, held, value, monitor, deadline,
                   lastDelivered, arrVars>>

\* PV.reset called by task t
Reset(t) ==
    /\ Usable(t)
    /\ event' = PV_reset(event)
    /\ tasks' = [tasks EXCEPT ![t] = [@ EXCEPT !.reset = TRUE,
                                               !.fresh = FALSE]]
    /\ op' = Op("reset", t, NoResult)
    /\ UNCHANGED <<cache, now, alive, held, value, monitor, deadline,
                   lastDelivered, arrVars>>

\* PV.caput: delegated to catools.caput, the cache is not involved
PV_caput(t) ==
    /\ Usable(t)
    /\ op' = Op("caput", 0, NoResult)
    /\ UNCHANGED <<cache, now, alive, held, pvVars, arrVars>>

\* PV.caget: delegated to catools.caget, the cache is not involved
PV_caget(t) ==
    /\ Usable(t)
    /\ op' = Op("caget", 0, NoResult)
    /\ UNCHANGED <<cache, now, alive, held, pvVars, arrVars>>

\* an explicit PV.close() by task t
Close(t) ==
    /\ Usable(t)
    /\ PV_close
    /\ op' = [Op("close", 0, NoResult) EXCEPT
                !.again = (monitor.state = "closed")]
    /\ UNCHANGED <<cache, now, alive, held, value, event, deadline, tasks,
                   lastDelivered, arrVars>>

\* the user drops the last reference (no call is in progress); with no
\* strong reference left the object is collected and PV.__del__ runs
PV_del ==
    /\ cache = "PV" /\ alive /\ held
    /\ Waiting = {}
    /\ held' = FALSE
    /\ IF StrongRefs(FALSE, monitor.state = "open") = 0
       THEN /\ PV_close
            /\ alive' = FALSE
            /\ op' = [Op("del", 0, NoResult) EXCEPT
                        !.again = (monitor.state = "closed")]
       ELSE /\ UNCHANGED <<monitor, alive>>
            /\ op' = Op("drop", 0, NoResult)
    /\ UNCHANGED <<cache, now, value, event, deadline, tasks,
                   lastDelivered, arrVars>>

\* the scheduler's timer expires the Wait of task t: Wait raises Timeout
TimeoutFire(t) ==
    /\ cache = "PV"
    /\ t \in Waiting
    /\ tasks[t].deadline <= now
    /\ tasks' = [tasks EXCEPT ![t] = Idle]
    /\ op' = [Op("timeout", t, TimeoutResult) EXCEPT
                !.woken = {<<t, tasks[t].call>>},
                !.paired = tasks[t].reset, !.fresh = tasks[t].fresh]
    /\ UNCHANGED <<cache, now, alive, held, value, event, monitor,
                   deadline, lastDelivered, arrVars>>

\* time passes, but never beyond the deadline of a pending Wait
Tick ==
    /\ cache = "PV" /\ alive
    /\ now < MaxTime
    /\ \A t \in Waiting : now < tasks[t].deadline
    /\ now' = now + 1
    /\ op' = Op("tick", 0, NoResult)
    /\ UNCHANGED <<cache, alive, held, pvVars, arrVars>>

NextPV ==
    \/ \E v \in Values, l \in BOOLEAN : PV_on_update(v, l)
    \/ \E t \in Tasks : PV_get(t)
    \/ \E t \in Tasks, d \in (0 .. MaxTime) \cup {Forever}, r \in BOOLEAN :
          PV_get_next(t, d, r)
    \/ \E t \in Tasks : Reset(t)
    \/ \E t \in Tasks : PV_caput(t)
    \/ \E t \in Tasks : PV_caget(t)
    \/ \E t \in Tasks : Close(t)
    \/ PV_del
    \/ \E t \in Tasks : TimeoutFire(t)
    \/ Tick

\* the program that constructs a PV
InitPV == Init /\ cache = "PV"

SpecPV == InitPV /\ [][NextPV]_vars

\* time does not stand still for ever while the wrapper lives: the calls
\* made at one instant are finitely many (the clock of the model ends at
\* MaxTime)
NonZeno == []<>(now = MaxTime \/ ~alive)

\* the same program under a fair scheduler: a timer that is due fires, the
\* clock goes on whenever no pending Wait holds it back, and time passes
FairSpecPV ==
    /\ SpecPV
    /\ \A t \in Tasks : WF_vars(TimeoutFire(t))
    /\ SF_vars(Tick)
    /\ NonZeno

\* ------------------------------------------------- PV_array operations
\* the arrays of the PV_array as one record
Arrays == [value |-> avalue, seen |-> seen, ok |-> ok,
           timestamp |-> timestamp, severity |-> severity, status |-> status]

SetArrays(a) ==
    /\ avalue' = a.value
    /\ seen' = a.seen
    /\ ok' = a.ok
    /\ timestamp' = a.timestamp
    /\ severity' = a.severity
    /\ status' = a.status

\* one slot of the arrays
Slot(a, i) == [value |-> a.value[i], seen |-> a.seen[i], ok |-> a.ok[i],
               timestamp |-> a.timestamp[i], severity |-> a.severity[i],
               status |-> a.status[i]]

\* _update_one that clears the value of a slot reported invalid
update_one_zero(a, r, index) ==
    IF r.ok
    THEN [a EXCEPT !.seen[index] = TRUE,
                   !.ok[index] = r.ok,
                   !.value[index] = r.value,
                   !.timestamp[index] = r.timestamp,
                   !.severity[index] = r.severity,
                   !.status[index] = r.status]
    ELSE [a EXCEPT !.seen[index] = TRUE,
                   !.ok[index] = r.ok,
                   !.value[index] = 0]

\* _update_one that sets seen[index] = value.ok
update_one_seen_ok(a, r, index) ==
    IF r.ok
    THEN [a EXCEPT !.seen[index] = TRUE,
                   !.ok[index] = r.ok,
                   !.value[index] = r.value,
                   !.timestamp[index] = r.timestamp,
                   !.severity[index] = r.severity,
                   !.status[index] = r.status]
    ELSE [a EXCEPT !.seen[index] = r.ok,
                   !.ok[index] = r.ok]

\* _update_one without the `if value.ok`: the metadata is always written
update_one_always(a, r, index) ==
    [a EXCEPT !.seen[index] = TRUE,
              !.ok[index] = r.ok,
              !.value[index] = IF r.ok THEN r.value ELSE @,
              !.timestamp[index] = r.timestamp,
              !.severity[index] = r.severity,
              !.status[index] = r.status]

\* _update_one that assigns the payload to the whole array (self.__value[:])
update_one_all(a, r, index) ==
    IF r.ok
    THEN [a EXCEPT !.seen[index] = TRUE,
                   !.ok[index] = r.ok,
                   !.value = [j \in Slots |-> r.value],
                   !.timestamp[index] = r.timestamp,
                   !.severity[index] = r.severity,
                   !.status[index] = r.status]
    ELSE [a EXCEPT !.seen[index] = TRUE,
                   !.ok[index] = r.ok]

\* PV_array._update_one
update_one(a, r, index) ==
    IF r.ok
    THEN [a EXCEPT !.seen[index] = TRUE,
                   !.ok[index] = r.ok,
                   !.value[index] = r.value,
                   !.timestamp[index] = r.timestamp,
                   !.severity[index] = r.severity,
                   !.status[index] = r.status]
    ELSE [a EXCEPT !.seen[index] = TRUE,
                   !.ok[index] = r.ok]

\* PV_array.all_ok
all_ok == \A i \in Slots : ok[i]

\* PV_array._on_update: a monitor delivers report r for slot index; then
\* self.on_update is called with the index if it is set
PV_array_on_update(r, index, listening) ==
    /\ cache = "PV_array" /\ alive
    /\ monitors[index].state = "open"
    /\ SetArrays(update_one(Arrays, r, index))
    /\ syncing' = IF syncing.active
                  THEN [syncing EXCEPT !.during = @ \cup {index}]
                  ELSE syncing
    /\ lastReport' = [lastReport EXCEPT ![index] = r]
    /\ lastValid' = IF r.ok THEN [lastValid EXCEPT ![index] = r] ELSE lastValid
    /\ op' = [Op("on_update", index, NoResult) EXCEPT
                !.listening = listening,
                !.heard = Heard(listening, index, avalue'[index])]
    /\ UNCHANGED <<cache, now, alive, held, pvVars, monitors>>

\* PV_array.sync, first half: caget is called and suspends the caller
SyncCall(throw) ==
    /\ cache = "PV_array" /\ alive /\ held
    /\ ~syncing.active
    /\ syncing' = [active |-> TRUE, throw |-> throw, during |-> {}]
    /\ op' = Op("sync_call", 0, NoResult)
    /\ UNCHANGED <<cache, now, alive, held, pvVars, avalue, seen, ok, timestamp,
                   severity, status, monitors, lastReport, lastValid>>

\* the loop of sync without the `if not self.seen[index]`
RECURSIVE sync_loop_overwrite(_, _, _)
sync_loop_overwrite(a, values, index) ==
    IF index = NSlots THEN a
    ELSE sync_loop_overwrite(update_one(a, values[index], index),
                             values, index + 1)

\* the loop of sync also applying the read of a slot that is not ok
RECURSIVE sync_loop_retry(_, _, _)
sync_loop_retry(a, values, index) ==
    IF index = NSlots THEN a
    ELSE sync_loop_retry(IF ~a.seen[index] \/ ~a.ok[index]
                         THEN update_one(a, values[index], index)
                         ELSE a,
                         values, index + 1)

\* the loop of sync leaving at the first read that failed
RECURSIVE sync_loop_stop(_, _, _)
sync_loop_stop(a, values, index) ==
    IF index = NSlots \/ ~values[index].ok THEN a
    ELSE sync_loop_stop(IF ~a.seen[index]
                        THEN update_one(a, values[index], index)
                        ELSE a,
                        values, index + 1)

\* the loop of PV_array.sync over enumerate(values), from index on
RECURSIVE sync_loop(_, _, _)
sync_loop(a, values, index) ==
    IF index = NSlots THEN a
    ELSE sync_loop(IF ~a.seen[index]
                   THEN update_one(a, values[index], index)
                   ELSE a,
                   values, index + 1)

\* the seen slots for which a read differs from what the cache holds
Differing(values) ==
    {i \in Slots : seen[i] /\ (values[i].ok # ok[i]
                               \/ (values[i].ok /\ values[i].value # avalue[i]))}

\* PV_array.sync, second half: caget returns values and the loop runs
SyncReturn(values) ==
    /\ cache = "PV_array"
    /\ syncing.active
    /\ ~syncing.throw \/ \A i \in Slots : values[i].ok
    /\ SetArrays(sync_loop(Arrays, values, 0))
    /\ syncing' = [syncing EXCEPT !.active = FALSE]
    /\ lastReport' = [i \in Slots |->
                        IF seen[i] THEN lastReport[i] ELSE values[i]]
    /\ lastValid' = [i \in Slots |->
                        IF ~seen[i] /\ values[i].ok THEN values[i]
                        ELSE lastValid[i]]
    /\ op' = [Op("sync", 0, NoResult) EXCEPT
                !.slots = Differing(values),
                !.failed = {i \in Slots : ~values[i].ok}]
    /\ UNCHANGED <<cache, now, alive, held, pvVars, monitors>>

\* a sync that takes what could be read before it lets the error through:
\* the unseen slots become seen and not ok
SyncRaise_partial ==
    /\ cache = "PV_array"
    /\ syncing.active
    /\ syncing.throw
    /\ syncing' = [syncing EXCEPT !.active = FALSE]
    /\ seen' = [i \in Slots |-> TRUE]
    /\ lastReport' = [i \in Slots |->
                        IF seen[i] THEN lastReport[i] ELSE Nothing]
    /\ op' = Op("sync_raise", 0, NoResult)
    /\ UNCHANGED <<cache, now, alive, held, pvVars, avalue, ok, timestamp,
                   severity, status, monitors, lastValid>>

\* PV_array.sync with throw=True when a read fails: caget raises
SyncRaise ==
    /\ cache = "PV_array"
    /\ syncing.active
    /\ syncing.throw
    /\ syncing' = [syncing EXCEPT !.active = FALSE]
    /\ op' = Op("sync_raise", 0, NoResult)
    /\ UNCHANGED <<cache, now, alive, held, pvVars, avalue, seen, ok, timestamp,
                   severity, status, monitors, lastReport, lastValid>>

\* PV_array.get: a copy of the values
PV_array_get ==
    /\ cache = "PV_array" /\ alive /\ held
    /\ op' = Op("get", 0, NoResult)
    /\ UNCHANGED <<cache, now, alive, held, pvVars, arrVars>>

\* PV_array.caput: delegated to catools.caput
PV_array_caput ==
    /\ cache = "PV_array" /\ alive /\ held
    /\ op' = Op("caput", 0, NoResult)
    /\ UNCHANGED <<cache, now, alive, held, pvVars, arrVars>>

\* PV_array.close that stops after the first monitor
PV_array_close_first ==
    monitors' = [i \in Slots |-> IF i = 0 THEN Monitor_close(monitors[i])
                                 ELSE monitors[i]]

\* PV_array.close: every monitor is closed
PV_array_close == monitors' = [i \in Slots |-> Monitor_close(monitors[i])]

\* an explicit PV_array.close()
CloseArray ==
    /\ cache = "PV_array" /\ alive /\ held
    /\ PV_array_close
    /\ op' = [Op("close", 0, NoResult) EXCEPT
                !.again = \A i \in Slots : monitors[i].state = "closed"]
    /\ UNCHANGED <<cache, now, alive, held, pvVars, avalue, seen, ok, timestamp,
                   severity, status, syncing, lastReport, lastValid>>

\* the user drops the last reference (no sync is in progress); with no
\* strong reference left the object is collected and PV_array.__del__ runs
PV_array_del ==
    /\ cache = "PV_array" /\ alive /\ held
    /\ ~syncing.active
    /\ held' = FALSE
    /\ IF StrongRefs(FALSE, \E i \in Slots : monitors[i].state = "open") = 0
       THEN /\ PV_array_close
            /\ alive' = FALSE
            /\ op' = [Op("del", 0, NoResult) EXCEPT
                        !.again = \A i \in Slots : monitors[i].state = "closed"]
       ELSE /\ UNCHANGED <<monitors, alive>>
            /\ op' = Op("drop", 0, NoResult)
    /\ UNCHANGED <<cache, now, pvVars, avalue, seen, ok, timestamp,
                   severity, status, syncing, lastReport, lastValid>>

NextArr ==
    \/ \E r \in Reports, i \in Slots, l \in BOOLEAN :
          PV_array_on_update(r, i, l)
    \/ \E throw \in BOOLEAN : SyncCall(throw)
    \/ \E values \in [Slots -> Reports] : SyncReturn(values)
    \/ SyncRaise
    \/ PV_array_get
    \/ PV_array_caput
    \/ CloseArray
    \/ PV_array_del

\* the program that constructs a PV_array
InitArr == Init /\ cache = "PV_array"

SpecArr == InitArr /\ [][NextArr]_vars

Next == NextPV \/ NextArr

Spec == Init /\ [][Next]_vars

\* ================================================= properties of PV

\* C1: once an update has been delivered, a get() returns the value of the
\* most recently delivered update and does not suspend its caller, whatever
\* get, get_next and reset calls came before it.
C1_GetReturnsLatest ==
    (op.name = "get" /\ lastDelivered # None) =>
        /\ op.ret = Returned(lastDelivered)
        /\ tasks[op.arg].pc = "idle"

\* a get() answered from the cache although the event had been reset
C1_Witness ==
    /\ op.name = "get"
    /\ lastDelivered # None
    /\ ~event.flag
    /\ op.ret = Returned(lastDelivered)

\* C2: a get_next paired with a reset of its caller returns a value only if
\* an update was delivered after that reset, and then the value of the most
\* recent one; with the event signalled since the reset it returns at once;
\* an update wakes every suspended caller; and the clock does not pass the
\* deadline of a suspended caller, so with timeout=0 the Timeout is immediate.
C2_Returns ==
    /\ (op.name = "get_next" /\ op.paired /\ op.ret.kind = "value") =>
          (op.fresh /\ op.ret = Returned(lastDelivered))
    /\ (op.name = "get_next" /\ op.paired /\ ~op.fresh) =>
          (tasks[op.arg].pc = "waiting" /\ tasks[op.arg].deadline >= now)
    /\ (op.name = "get_next" /\ op.paired /\ op.fresh /\ event.flag) =>
          op.ret = Returned(lastDelivered)
    /\ (op.name = "on_update") =>
          (Waiting = {} /\ op.ret = Returned(lastDelivered))
    /\ (op.name = "timeout") => op.ret = TimeoutResult

C2_TimerIsPrompt ==
    \A t \in Tasks :
        (tasks[t].pc = "waiting" /\ tasks[t].deadline <= now
            /\ tasks'[t].pc = "waiting") => now' = now

C2_ResetThenGetNext == []C2_Returns /\ [][C2_TimerIsPrompt]_vars

\* a get_next paired with a reset raised Timeout although a value is cached
C2_Witness ==
    /\ op.name = "timeout"
    /\ op.paired /\ ~op.fresh
    /\ value # None
    /\ op.ret = TimeoutResult

\* C3: a get() made before any update suspends its caller until
\* self.__deadline; the first update hands the delivered value to every
\* caller suspended in get(); a get() made after an update returns the cached
\* value without suspending.
C3_Blocks ==
    /\ (op.name = "get" /\ lastDelivered = None) =>
          /\ op.ret = NoResult
          /\ tasks[op.arg].pc = "waiting"
          /\ tasks[op.arg].call = "get"
          /\ tasks[op.arg].deadline = deadline
    /\ (op.name = "get" /\ lastDelivered # None) =>
          /\ op.ret = Returned(value)
          /\ tasks[op.arg].pc = "idle"

C3_FirstUpdate ==
    (lastDelivered = None /\ op'.name = "on_update") =>
        \A t \in Tasks :
            (tasks[t].pc = "waiting" /\ tasks[t].call = "get") =>
                /\ <<t, "get">> \in op'.woken
                /\ tasks'[t].pc = "idle"
                /\ op'.ret = Returned(lastDelivered')
                /\ value' = lastDelivered'

C3_BlockingGet == []C3_Blocks /\ [][C3_FirstUpdate]_vars

\* the first update woke a caller suspended in get()
C3_Witness ==
    /\ op.name = "on_update"
    /\ \E t \in Tasks : <<t, "get">> \in op.woken /\ tasks[t].pc = "idle"
    /\ op.ret = Returned(value)

\* C10: a Timeout leaves the wrapper, its monitor, the value and the event as
\* they were, so that updates are delivered as before; and every delivered
\* update, also one that follows a Timeout, is stored, signalled and handed
\* to the suspended callers, and a get() returns it.
C10_Updates ==
    /\ (op.name = "on_update") =>
          /\ value = lastDelivered
          /\ event = [flag |-> TRUE, value |-> lastDelivered]
          /\ Waiting = {}
    /\ (op.name = "get" /\ lastDelivered # None) =>
          op.ret = Returned(lastDelivered)

C10_TimeoutStep ==
    (op'.name = "timeout") =>
        /\ alive' = alive
        /\ monitor' = monitor
        /\ value' = value
        /\ event' = event

C10_TimeoutKeepsSubscription ==
    []C10_Updates /\ [][C10_TimeoutStep]_vars

\* right after a Timeout, an update woke a caller suspended in get_next
C10_Witness ==
    /\ op.name = "on_update"
    /\ op.late
    /\ \E t \in Tasks : <<t, "get_next">> \in op.woken
    /\ value = lastDelivered

\* ================================================= properties of PV_array

SlotUnchanged(i) ==
    /\ avalue'[i] = avalue[i]
    /\ seen'[i] = seen[i]
    /\ ok'[i] = ok[i]
    /\ timestamp'[i] = timestamp[i]
    /\ severity'[i] = severity[i]
    /\ status'[i] = status[i]

\* C4: a sync leaves every slot whose seen flag was set when its caget
\* returned exactly as it was, whatever the caget read for that slot and also
\* when the slot was updated by its monitor while the caget was in flight.
C4_Step ==
    (op'.name = "sync") => \A i \in Slots : seen[i] => SlotUnchanged(i)

C4_SyncNeverOverwrites == [][C4_Step]_vars

\* a sync returned a different reading for a slot updated during its caget
C4_Witness ==
    /\ op.name = "sync"
    /\ op.slots \cap syncing.during # {}

\* C5: an invalid report delivered to slot i sets seen[i], clears ok[i] and
\* leaves values[i], timestamp[i], severity[i] and status[i] as they were; so
\* a slot reported invalid after a valid report still holds the value of that
\* valid report, and all_ok is false.
C5_Step ==
    \A i \in Slots :
        (op'.name = "on_update" /\ op'.arg = i /\ ~lastReport'[i].ok) =>
            /\ seen'[i] /\ ~ok'[i]
            /\ avalue'[i] = avalue[i]
            /\ timestamp'[i] = timestamp[i]
            /\ severity'[i] = severity[i]
            /\ status'[i] = status[i]

C5_Stale ==
    \A i \in Slots :
        (seen[i] /\ ~lastReport[i].ok /\ lastValid[i].ok) =>
            (avalue[i] = lastValid[i].value /\ ~all_ok)

C5_InvalidKeepsData == []C5_Stale /\ [][C5_Step]_vars

\* a disconnect was reported for a slot holding a non-zero reading
C5_Witness ==
    /\ op.name = "on_update"
    /\ ~lastReport[op.arg].ok
    /\ lastValid[op.arg].ok
    /\ avalue[op.arg] # 0
    /\ ~all_ok

\* C6: all_ok is true exactly when the most recent report applied to every
\* slot was valid; it is false while a slot is unseen, and it becomes true
\* only by a monitor update or by a sync.
C6_Now ==
    /\ all_ok <=> \A i \in Slots : seen[i] /\ lastReport[i].ok
    /\ (\E i \in Slots : ~seen[i]) => ~all_ok

C6_Step == (~all_ok /\ all_ok') => op'.name \in {"on_update", "sync"}

C6_AllOk == []C6_Now /\ [][C6_Step]_vars

\* a sync filled the last unseen slot and all_ok became true
C6_Witness ==
    /\ op.name = "sync"
    /\ all_ok
    /\ \E i \in Slots : i \notin syncing.during

\* C8: slots start Unseen; a slot changes state only by an update of its own
\* monitor or, while Unseen, by a sync; an update leaves it Valid or Invalid
\* according to the report; a seen flag that is set stays set.
SlotState(i) ==
    IF ~seen[i] THEN "Unseen" ELSE IF ok[i] THEN "Valid" ELSE "Invalid"

C8_Start == (op.name = "init") => \A i \in Slots : SlotState(i) = "Unseen"

C8_Step ==
    \A i \in Slots :
        /\ seen[i] => seen'[i]
        /\ (seen'[i] # seen[i] \/ ok'[i] # ok[i]) =>
              \/ op'.name = "on_update" /\ op'.arg = i
              \/ op'.name = "sync" /\ ~seen[i]
        /\ (op'.name = "on_update" /\ op'.arg = i) =>
              (seen'[i] /\ ok'[i] = lastReport'[i].ok)

C8_SlotStateMachine == []C8_Start /\ [][C8_Step]_vars

\* after a close, one slot is Valid and another went from Valid to Invalid
C8_Witness ==
    /\ op.name = "close"
    /\ \E i, j \in Slots :
          /\ SlotState(i) = "Valid"
          /\ SlotState(j) = "Invalid" /\ lastValid[j].ok

\* C9 as claimed: the metadata of a seen slot are those of the most recent
\* report applied to it, valid or not.
C9_Original ==
    \A i \in Slots :
        seen[i] =>
            /\ ok[i] = lastReport[i].ok
            /\ timestamp[i] = lastReport[i].timestamp
            /\ severity[i] = lastReport[i].severity
            /\ status[i] = lastReport[i].status
            /\ ok[i] => avalue[i] = lastReport[i].value

\* the metadata field f of the last valid report, zero while there was none
StoredMeta(r, f) == IF r.ok THEN r[f] ELSE 0

\* C9 (amended): for a seen slot, ok[i] is the ok flag of the most recent
\* report applied to it; timestamp[i], severity[i] and status[i] are those of
\* the most recent valid report applied to it (zero while there was none);
\* and if ok[i] then values[i] is the payload of the most recent report.
C9_MetadataOfLastValid ==
    \A i \in Slots :
        seen[i] =>
            /\ ok[i] = lastReport[i].ok
            /\ timestamp[i] = StoredMeta(lastValid[i], "timestamp")
            /\ severity[i] = StoredMeta(lastValid[i], "severity")
            /\ status[i] = StoredMeta(lastValid[i], "status")
            /\ ok[i] => avalue[i] = lastReport[i].value

\* a slot reported invalid still carries the timestamp of its valid report
C9_Witness ==
    \E i \in Slots :
        /\ seen[i] /\ ~ok[i]
        /\ lastReport[i] = Nothing
        /\ lastValid[i].ok
        /\ timestamp[i] = lastValid[i].timestamp
        /\ timestamp[i] # 0

\* ================================================= properties of both

AllReleasedOnce ==
    IF cache = "PV"
    THEN monitor = [state |-> "closed", released |-> 1]
    ELSE \A i \in Slots : monitors[i] = [state |-> "closed", released |-> 1]

NoneReleased ==
    /\ monitor = [state |-> "open", released |-> 0]
    /\ \A i \in Slots : monitors[i] = [state |-> "open", released |-> 0]

\* C7: until the first close() no monitor is released; after a close(),
\* explicit or by __del__, every monitor of the wrapper has been released
\* exactly once; and a close() of a closed wrapper changes no monitor.
C7_Released ==
    /\ NoneReleased \/ AllReleasedOnce
    /\ op.name \in {"close", "del"} => AllReleasedOnce
    /\ ~alive => AllReleasedOnce

C7_Step ==
    /\ (op'.name \in {"close", "del"} /\ op'.again) =>
          (AllReleasedOnce /\ monitor' = monitor /\ monitors' = monitors)
    /\ (op'.name \notin {"close", "del"}) =>
          (monitor' = monitor /\ monitors' = monitors)

C7_CloseIdempotent == []C7_Released /\ [][C7_Step]_vars

\* a PV_array closed explicitly and then again by __del__
C7_Witness ==
    /\ cache = "PV_array"
    /\ op.name = "del"
    /\ op.again
    /\ \A i \in Slots : monitors[i].released = 1

\* C11: the callback registered with the monitor never keeps the wrapper
\* alive: the wrapper lives exactly as long as the user holds it, and when the
\* user drops the last reference __del__ runs close(), after which every
\* monitor the wrapper created has been released (once).
C11_Lifetime ==
    /\ alive <=> held
    /\ ~held => AllReleasedOnce
    /\ op.name = "del" => (~alive /\ AllReleasedOnce)
    /\ op.name # "drop"

C11_Step == (held /\ ~held') => (op'.name = "del" /\ ~alive')

C11_WeakCallback == []C11_Lifetime /\ [][C11_Step]_vars

\* a PV that had received updates was dropped while subscribed and released
C11_Witness ==
    /\ cache = "PV"
    /\ op.name = "del" /\ ~op.again
    /\ lastDelivered # None
    /\ ~alive
    /\ monitor = [state |-> "closed", released |-> 1]

\* C12: one update wakes every task that is suspended on the wrapper: each
\* of them leaves its call in that step with the delivered value, so no task
\* is ever left suspended while the event is signalled
C12_NoneLeftBehind == event.flag => Waiting = {}

C12_Step ==
    op'.name = "on_update" =>
        /\ op'.woken = {<<t, tasks[t].call>> : t \in Waiting}
        /\ \A t \in Waiting : tasks'[t] = Idle
        /\ op'.ret = Returned(lastDelivered')
        /\ Waiting' = {}

C12_AllWaitersWoken == []C12_NoneLeftBehind /\ [][C12_Step]_vars

\* C12 happens: one update has woken two tasks suspended in get_next
C12_Witness ==
    /\ op.name = "on_update"
    /\ Cardinality({w \in op.woken : w[2] = "get_next"}) >= 2
    /\ op.ret = Returned(value)

\* C13: a task suspended in get_next with a finite timeout resumes in the
\* end; a suspended task resumes only through an update that hands it the
\* value or through a Timeout at or after its deadline; and an update
\* resumes the tasks that wait without a timeout
C13_Asked(t) ==
    /\ op.name = "get_next" /\ op.arg = t
    /\ tasks[t].pc = "waiting"
    /\ op.until # Forever

C13_Eventually ==
    \A t \in Tasks :
        (C13_Asked(t) \/ (tasks[t].pc = "waiting"
                          /\ tasks[t].call = "get_next"
                          /\ tasks[t].deadline # Forever))
            ~> (tasks[t].pc = "idle")

C13_Step ==
    \A t \in Tasks :
        /\ (tasks[t].pc = "waiting" /\ tasks'[t].pc = "idle") =>
              \/ /\ op'.name = "on_update"
                 /\ <<t, tasks[t].call>> \in op'.woken
                 /\ op'.ret = Returned(value')
              \/ /\ op'.name = "timeout" /\ op'.arg = t
                 /\ op'.ret = TimeoutResult
                 /\ tasks[t].deadline <= now
        /\ (tasks[t].pc = "waiting" /\ tasks[t].deadline = Forever
              /\ op'.name = "on_update") => tasks'[t].pc = "idle"

C13_GetNextResumes == C13_Eventually /\ [][C13_Step]_vars

\* C13 happens: a get_next with a finite timeout was suspended, the clock
\* reached its deadline and it failed with Timeout
C13_Witness ==
    /\ op.name = "timeout"
    /\ <<op.arg, "get_next">> \in op.woken
    /\ op.ret = TimeoutResult
    /\ now >= 1

\* C14: only an update changes the cached value of the PV: reset, get,
\* get_next, a Timeout, caput, caget, close and the collection of the
\* wrapper leave it as it is; and a get that returns the cached value
\* changes neither the event nor any task
C14_Step ==
    /\ value' # value => op'.name = "on_update"
    /\ op'.name \in {"reset", "get", "get_next", "timeout", "caput",
                     "caget", "close", "del", "tick"} => value' = value
    /\ (op'.name = "get" /\ value # None) =>
          /\ event' = event
          /\ tasks' = tasks
          /\ op'.ret = Returned(value)

C14_OnlyUpdatesWrite == [][C14_Step]_vars

\* C14 happens: a get returned the cached value while the event was
\* signalled, and the event is still signalled
C14_Witness ==
    /\ op.name = "get" /\ op.ret.kind = "value"
    /\ value # None /\ op.ret.val = value
    /\ event.flag
    /\ tasks[op.arg].pc = "idle"

\* C15: an update calls the listener once if one is set and not at all
\* otherwise, and nothing else calls it; the call comes after the update is
\* stored (and, for the PV, signalled), so a get made inside the listener
\* reads the state the update left; the listener of a PV_array is handed
\* the index of the updated slot
C15_Step ==
    /\ op'.name # "on_update" => op'.heard = <<>>
    /\ op'.name = "on_update" =>
          /\ Len(op'.heard) = IF op'.listening THEN 1 ELSE 0
          /\ op'.listening =>
                IF cache = "PV"
                THEN /\ op'.heard[1].saw = lastDelivered'
                     /\ event'.flag /\ event'.value = lastDelivered'
                ELSE /\ op'.heard[1].arg = op'.arg
                     /\ op'.heard[1].saw = avalue'[op'.arg]
                     /\ seen'[op'.arg]
                     /\ lastReport'[op'.arg].ok =>
                           op'.heard[1].saw = lastReport'[op'.arg].value

C15_ListenerAfterUpdate == [][C15_Step]_vars

\* C15 happens: the listener of a PV_array was called for an update of the
\* last slot that changed its value, and read the new value at that index
C15_Witness ==
    /\ cache = "PV_array" /\ op.name = "on_update" /\ op.listening
    /\ op.arg = NSlots - 1
    /\ op.heard = <<[arg |-> NSlots - 1,
                     saw |-> lastReport[NSlots - 1].value]>>
    /\ lastReport[NSlots - 1].ok
    /\ lastReport[NSlots - 1].value # 0

\* C16 as stated: after a sync called with throw=False has returned, ok is
\* false for every slot whose read failed
C16_Original ==
    (op.name = "sync" /\ ~syncing.throw) => \A i \in op.failed : ~ok[i]

\* C16 (amended): a sync called with throw=False never raises; when it
\* returns, every slot that was not seen and whose read failed is seen with
\* ok false and its data untouched, every slot that was not seen and whose
\* read succeeded is seen and ok with the data read, whatever the other
\* reads did; and a slot that was already seen is left as it was, also when
\* its read failed
C16_Step ==
    /\ op'.name = "sync_raise" => syncing.throw
    /\ (op'.name = "sync" /\ ~syncing.throw) =>
          \A i \in Slots :
              IF seen[i] THEN SlotUnchanged(i)
              ELSE IF i \in op'.failed
              THEN /\ seen'[i] /\ ~ok'[i]
                   /\ avalue'[i] = avalue[i]
                   /\ timestamp'[i] = timestamp[i]
                   /\ severity'[i] = severity[i]
                   /\ status'[i] = status[i]
              ELSE /\ seen'[i] /\ ok'[i]
                   /\ lastReport'[i].ok
                   /\ avalue'[i] = lastReport'[i].value
                   /\ timestamp'[i] = lastReport'[i].timestamp

C16_SyncFailuresPerSlot == [][C16_Step]_vars

\* C16 happens: a sync called with throw=False returned although a read
\* failed; the failed slot, unseen before, is now seen and not ok, after a
\* slot before it whose read succeeded is ok
C16_Witness ==
    /\ op.name = "sync" /\ ~syncing.throw
    /\ \E i, j \in Slots :
          /\ i < j
          /\ i \notin op.failed /\ ok[i] /\ lastReport[i].ok
          /\ j \in op.failed /\ seen[j] /\ ~ok[j] /\ ~lastReport[j].ok
          /\ j \notin syncing.during

\* C17: a get that has to wait waits until the deadline fixed by the
\* constructor, whenever it is called: the deadline never changes, a task
\* suspended in get has that deadline, the clock does not pass it while the
\* task is suspended, and a get suspended after the deadline has passed gets
\* its Timeout before the clock moves again
C17_Deadline ==
    \A t \in Tasks :
        (tasks[t].pc = "waiting" /\ tasks[t].call = "get") =>
            /\ tasks[t].deadline = deadline
            /\ value = None

C17_Step ==
    /\ deadline' = deadline
    /\ \A t \in Tasks :
          (tasks[t].pc = "waiting" /\ tasks[t].call = "get") =>
              /\ now' # now => now' <= deadline
              /\ (op'.name = "timeout" /\ op'.arg = t) =>
                    /\ deadline <= now
                    /\ op'.ret = TimeoutResult
    /\ (op'.name = "get" /\ op'.ret = NoResult) =>
          /\ op'.until = deadline
          /\ tasks'[op'.arg].pc = "waiting"
          /\ deadline <= now => tasks'[op'.arg].deadline <= now'

C17_AbsoluteDeadline == []C17_Deadline /\ [][C17_Step]_vars

\* C17 happens: a get first made after the deadline had passed with no
\* update has failed with Timeout, the clock not having moved
C17_Witness ==
    /\ op.name = "timeout" /\ <<op.arg, "get">> \in op.woken
    /\ deadline < now
    /\ value = None

\* C18: a report applied to slot i, by a monitor update or by sync, changes
\* the entries of slot i only, and what slot i becomes is decided by what it
\* was and by that report alone; no other step changes any slot
C18_Applied(i, r) ==
    /\ seen'[i]
    /\ ok'[i] = r.ok
    /\ avalue'[i] = IF r.ok THEN r.value ELSE avalue[i]
    /\ timestamp'[i] = IF r.ok THEN r.timestamp ELSE timestamp[i]
    /\ severity'[i] = IF r.ok THEN r.severity ELSE severity[i]
    /\ status'[i] = IF r.ok THEN r.status ELSE status[i]

C18_Step ==
    \A i \in Slots :
        /\ (op'.name = "on_update" /\ op'.arg = i) =>
              /\ C18_Applied(i, lastReport'[i])
              /\ \A j \in Slots \ {i} : SlotUnchanged(j)
        /\ op'.name = "sync" =>
              IF seen[i] THEN SlotUnchanged(i)
              ELSE C18_Applied(i, lastReport'[i])
        /\ op'.name \notin {"on_update", "sync"} => SlotUnchanged(i)

C18_SlotsIndependent == [][C18_Step]_vars

\* C18 happens: a valid update of the last slot has left another slot with
\* the different value its own last report gave it
C18_Witness ==
    /\ cache = "PV_array" /\ op.name = "on_update" /\ op.arg = NSlots - 1
    /\ lastReport[NSlots - 1].ok
    /\ avalue[NSlots - 1] = lastReport[NSlots - 1].value
    /\ \E j \in Slots \ {NSlots - 1} :
          /\ seen[j] /\ ok[j] /\ lastReport[j].ok
          /\ avalue[j] = lastReport[j].value
          /\ avalue[j] # avalue[NSlots - 1]

\* C19: a sync called with throw=True whose caget raises lets the error
\* through and leaves every slot as it was; only a sync called with
\* throw=True raises, and one that returns has read every PV
C19_Step ==
    /\ op'.name = "sync_raise" =>
          /\ syncing.active /\ syncing.throw
          /\ ~syncing'.active
          /\ \A i \in Slots : SlotUnchanged(i)
          /\ lastReport' = lastReport /\ lastValid' = lastValid
          /\ monitors' = monitors
    /\ (op'.name = "sync" /\ syncing.throw) => op'.failed = {}

C19_RaiseLeavesState == [][C19_Step]_vars

\* C19 happens: a sync has raised while a slot was still unseen, and the
\* slot is still unseen
C19_Witness ==
    /\ op.name = "sync_raise"
    /\ \E i \in Slots : ~seen[i]
    /\ \E j \in Slots : seen[j] /\ ok[j]

\* C20: when a sync has returned every slot is seen, those whose read
\* failed too; so a sync that starts its loop with every slot seen changes
\* nothing, and a slot that is seen and not ok stays so through a sync
\* whose read of it succeeds
C20_AllSeen == op.name = "sync" => \A i \in Slots : seen[i]

C20_Step ==
    /\ (op'.name = "sync" /\ \A i \in Slots : seen[i]) =>
          /\ \A i \in Slots : SlotUnchanged(i)
          /\ lastReport' = lastReport /\ lastValid' = lastValid
    /\ op'.name = "sync" =>
          \A i \in Slots :
              (seen[i] /\ ~ok[i]) => (seen'[i] /\ ~ok'[i])
    /\ op'.name = "sync" =>
          \A i \in op'.failed : seen'[i] /\ (~seen[i] => ~ok'[i])

C20_SyncOnlyOnce == []C20_AllSeen /\ [][C20_Step]_vars

\* C20 happens: a sync has returned with a successful read of a slot that
\* was seen and not ok from a failed report and saw no update meanwhile;
\* the slot is still not ok
C20_Witness ==
    /\ op.name = "sync"
    /\ \E i \in Slots :
          /\ seen[i] /\ ~ok[i] /\ ~lastReport[i].ok
          /\ i \in op.slots /\ i \notin op.failed
          /\ i \notin syncing.during
====
